---- MODULE Spec2Model ----
(***************************************************************************)
(* Model of review_heatmap/heatmap.py (class HeatmapCreator).              *)
(*                                                                         *)
(* Numbers.  Statistic values and the average are Python ints and are      *)
(* plain integers here.  The legend values are products of the legend      *)
(* factors (multiples of 1/8) with an int, so they are exact binary        *)
(* floats k/8; every THRESHOLD of a table is therefore stored as the       *)
(* integer number of eighths (threshold * Den), and a value is scaled the  *)
(* same way before it is compared with a threshold.                        *)
(*                                                                         *)
(* Markup.  The templates of .web are not part of the source; a formatted  *)
(* template is modelled by the record of the arguments it is formatted     *)
(* with, wrapped in a one-element sequence, and the empty string of markup *)
(* by the empty sequence.                                                  *)
(***************************************************************************)
EXTENDS Integers, Sequences, FiniteSets, TLC

VARIABLES mw,          \* the host object's three cache attributes
          stat_levels, \* HeatmapCreator.stat_levels (class attribute)
          log,         \* the generate calls made so far: <<whole, data>>
          last,        \* arguments of the most recent generate call
          payload,     \* value returned by the most recent generate call
          trace,       \* helper methods the most recent call went through
          repeat,      \* the most recent call repeated the arguments of the
                       \* call before it
          arg,         \* pure-function harness: the input drawn
          res          \* pure-function harness: the value returned

vars == <<mw, stat_levels, log, last, payload, trace, repeat, arg, res>>

----------------------------------------------------------------------------
(* Bounds of the model *)

MaxCalls == 3      \* generate calls in one behaviour
MaxNeg == 5        \* averages and values start at -MaxNeg
MaxAvg == 45       \* largest average given to the legend generator
MaxValue == 30     \* largest value of the dense range of values
MaxTableLen == 3   \* longest generic threshold table

----------------------------------------------------------------------------
(* Static tables of the class *)

Den == 8           \* the legend factors are multiples of 1/8

None == "<None>"

css_colors ==
  << "rh-col0", "rh-col11", "rh-col12", "rh-col13", "rh-col14", "rh-col15",
     "rh-col16", "rh-col17", "rh-col18", "rh-col19", "rh-col20" >>

\* legend_factors in eighths: 0.125, 0.25, 0.5, 0.75, 1, 1.25, 1.5, 2, 4
legend_factors == << 1, 2, 4, 6, 8, 10, 12, 16, 32 >>

stat_units == [streak |-> "day", percentage |-> None, cards |-> "card"]

Min(a, b) == IF a <= b THEN a ELSE b

Max(a, b) == IF a >= b THEN a ELSE b

Abs(n) == IF n < 0 THEN -n ELSE n

\* Python's zip: pairs up to the length of the shorter sequence
Zip(a, b) == [i \in 1..Min(Len(a), Len(b)) |-> <<a[i], b[i]>>]

\* a sequence of int thresholds in eighths
Eighths(ts) == [i \in 1..Len(ts) |-> ts[i] * Den]

compress_levels(colors, indices) ==
  [i \in 1..Len(indices) |-> colors[indices[i] + 1]]

StreakThresholds == << 0, 14, 30, 90, 180, 365 >>

PercentageThresholds == << 0, 25, 50, 60, 70, 80, 85, 90, 95, 99 >>

\* the class attribute stat_levels as built at class definition
StatLevelsInit ==
  [streak |-> Zip(Eighths(StreakThresholds),
                  compress_levels(css_colors, << 0, 2, 4, 6, 9, 10 >>)),
   percentage |-> Zip(Eighths(PercentageThresholds), css_colors)]

----------------------------------------------------------------------------
(* Legend generator *)

DefaultAverage == 20

\* _dynamic_legend without the floor at the default average
DynamicLegendNoFloor(average) ==
  [i \in 1..Len(legend_factors) |-> legend_factors[i] * average]

\* _dynamic_legend: the nine core values, in eighths
DynamicLegend(average) ==
  LET avg == Max(DefaultAverage, average)
  IN  [i \in 1..Len(legend_factors) |-> legend_factors[i] * avg]

Reverse(s) == [i \in 1..Len(s) |-> s[Len(s) + 1 - i]]

\* _heatmap_legend negating the legend without reversing it
HeatmapLegendNotReversed(legend) ==
  [i \in 1..Len(legend) |-> -legend[i]] \o <<0>> \o legend

\* _heatmap_legend
HeatmapLegend(legend) ==
  [i \in 1..Len(legend) |-> -Reverse(legend)[i]] \o <<0>> \o legend

\* _get_dynamic_legends
GetDynamicLegends(average) ==
  LET legend == DynamicLegend(average)
  IN  [stats_legend |-> <<0>> \o legend,
       heatmap_legend |-> HeatmapLegend(legend)]

----------------------------------------------------------------------------
(* Classifier and label formatter *)

\* the scan with an exclusive upper bound (value < threshold)
RECURSIVE ScanExclusive(_, _, _, _)
ScanExclusive(value, levels, i, css_class) ==
  IF i > Len(levels) THEN css_class
  ELSE IF value < levels[i][1] THEN levels[i][2]
       ELSE ScanExclusive(value, levels, i + 1, levels[i][2])

\* the loop of _generate_stats_elm: css_class after the scan of levels
\* (value and thresholds in the same unit)
RECURSIVE Scan(_, _, _, _)
Scan(value, levels, i, css_class) ==
  IF i > Len(levels) THEN css_class
  ELSE IF value <= levels[i][1] THEN levels[i][2]
       ELSE Scan(value, levels, i + 1, levels[i][2])

Classify(value, levels) == Scan(value, levels, 1, css_colors[1])

Falsy(term) == term \in {None, ""}

\* _maybe_pluralize
MaybePluralize(count, term) ==
  IF Falsy(term) THEN count
  ELSE ToString(count) \o " " \o term \o (IF Abs(count) > 1 THEN "s" ELSE "")

----------------------------------------------------------------------------
(* Stats element *)

\* the local table with the cards thresholds zipped against the colours
\* shifted by one
LocalStatLevelsShifted(class_levels, dynamic_legend) ==
  [t \in {"cards"} \cup DOMAIN class_levels |->
     IF t \in DOMAIN class_levels THEN class_levels[t]
     ELSE Zip(dynamic_legend, Tail(css_colors))]

\* lines 162-163: the local table, "cards" first, then updated with the
\* class attribute (whose entries win)
LocalStatLevels(class_levels, dynamic_legend) ==
  [t \in {"cards"} \cup DOMAIN class_levels |->
     IF t \in DOMAIN class_levels THEN class_levels[t]
     ELSE Zip(dynamic_legend, css_colors)]

\* the class attribute when update() is applied to it instead of to the
\* local dict
ClassStatLevelsUpdated(class_levels, dynamic_legend) ==
  [t \in {"cards"} \cup DOMAIN class_levels |->
     IF t = "cards" THEN Zip(dynamic_legend, css_colors)
     ELSE class_levels[t]]

\* the class attribute after lines 162-163: update() is applied to the
\* local dict, the class attribute is only read
ClassStatLevelsAfter(class_levels, dynamic_legend) == class_levels

\* str.format of a label into the template: a number is printed by str()
Text(label, term) == IF Falsy(term) THEN ToString(label) ELSE label

\* the loop body looking every statistic up in the percentage table
StatEntryOneTable(stat_dict, levels_by_type) ==
  LET stype == stat_dict.type
      value == stat_dict.value
      levels == levels_by_type["percentage"]
      css_class == Classify(value * Den, levels)
      label == MaybePluralize(value, stat_units[stype])
  IN  [class |-> css_class, text |-> Text(label, stat_units[stype])]

\* one iteration of the loop over data["stats"].items(): lines 168-180
StatEntry(stat_dict, levels_by_type) ==
  LET stype == stat_dict.type
      value == stat_dict.value
      levels == levels_by_type[stype]
      css_class == Classify(value * Den, levels)
      label == MaybePluralize(value, stat_units[stype])
  IN  [class |-> css_class, text |-> Text(label, stat_units[stype])]

\* _generate_stats_elm: html_streak formatted with format_dict
GenerateStatsElm(class_levels, data, dynamic_legend) ==
  LET levels_by_type == LocalStatLevels(class_levels, dynamic_legend)
  IN  << [html |-> "html_streak",
          format_dict |-> [name \in DOMAIN data.stats |->
                             StatEntry(data.stats[name], levels_by_type)]] >>

----------------------------------------------------------------------------
(* Heatmap element, css classes, cache *)

\* libaddon.platform.PLATFORM: fixed for the life of the process
PLATFORM == "lin"

\* _get_css_classes
GetCssClasses(config, view) ==
  LET conf == config.synced
  IN  << "rh-platform-" \o PLATFORM,
         "rh-theme-" \o conf.colors,
         "rh-mode-" \o conf.mode,
         "rh-view-" \o view >>

\* _generate_heatmap_elm: html_heatmap formatted with options and data;
\* the four fields taken from the preset heatmap_modes[mode] are carried
\* by the preset's name
GenerateHeatmapElm(self, data, dynamic_legend) ==
  << [html |-> "html_heatmap",
      options |-> [mode |-> self.config.synced.mode,
                   start |-> data.start,
                   stop |-> data.stop,
                   today |-> data.today,
                   offset |-> data.offset,
                   legend |-> dynamic_legend,
                   whole |-> self.whole],
      data |-> data.activity] >>

\* setattr(mw, name, value) on the host object's attribute dictionary
SetAttr(obj, name, value) ==
  {p \in obj : p[1] # name} \cup {<<name, value>>}

\* _save_current_perf storing the current streak as the maximum
SaveCurrentPerfSwapped(host, data) ==
  LET m1 == SetAttr(host, "_hmStreakMax", data.stats["streak_cur"].value)
      m2 == SetAttr(m1, "_hmStreakCur", data.stats["streak_max"].value)
  IN  SetAttr(m2, "_hmActivityDailyAvg",
              data.stats["activity_daily_avg"].value)

\* _save_current_perf
SaveCurrentPerf(host, data) ==
  LET m1 == SetAttr(host, "_hmStreakMax", data.stats["streak_max"].value)
      m2 == SetAttr(m1, "_hmStreakCur", data.stats["streak_cur"].value)
  IN  SetAttr(m2, "_hmActivityDailyAvg",
              data.stats["activity_daily_avg"].value)

----------------------------------------------------------------------------
(* generate *)

\* get_data() returned nothing
NoData == [empty |-> TRUE]

Truthy(data) == data # NoData

\* the no-data payload carrying the markers of the suppressed sections
NoDataPayloadMarked ==
  [info |-> "html_info_nodata", heatmap |-> <<>>, stats |-> <<>>,
   classes |-> <<"rh-disable-heatmap", "rh-disable-stats">>]

\* html_main_element.format(content=html_info_nodata, classes="");
\* the string " ".join(classes) is carried by the sequence of its words
\* (no class contains a space), the empty string by <<>>
NoDataPayload ==
  [info |-> "html_info_nodata", heatmap |-> <<>>, stats |-> <<>>,
   classes |-> <<>>]

\* line 113
ShowHeatmap(prefs, view) == prefs.display[view]

\* the stats gated by statsvis alone
ShowStatsOwnFlag(prefs, view) == prefs.statsvis

\* line 118
ShowStats(prefs, view) == prefs.display[view] \/ prefs.statsvis

\* line 123
SavesPerf(self) == self.whole

\* generate: the value returned, the host attributes and the class table
\* it leaves, and the helper methods it went through
generate(self, view, data, host, class_levels) ==
  LET prefs == self.config.profile
  IN
  IF ~Truthy(data)
  THEN [ret |-> NoDataPayload, mw |-> host, stat_levels |-> class_levels,
        trace |-> <<>>]
  ELSE
    LET legends == GetDynamicLegends(data.stats["activity_daily_avg"].value)
        classes0 == GetCssClasses(self.config, view)
        showH == ShowHeatmap(prefs, view)
        showS == ShowStats(prefs, view)
        heatmap == IF showH
                   THEN GenerateHeatmapElm(self, data, legends.heatmap_legend)
                   ELSE <<>>
        classes1 == IF showH THEN classes0
                    ELSE Append(classes0, "rh-disable-heatmap")
        stats == IF showS
                 THEN GenerateStatsElm(class_levels, data, legends.stats_legend)
                 ELSE <<>>
        levels1 == IF showS
                   THEN ClassStatLevelsAfter(class_levels, legends.stats_legend)
                   ELSE class_levels
        classes2 == IF showS THEN classes1
                    ELSE Append(classes1, "rh-disable-stats")
        host1 == IF SavesPerf(self) THEN SaveCurrentPerf(host, data) ELSE host
    IN  [ret |-> [info |-> "", heatmap |-> heatmap, stats |-> stats,
                  classes |-> classes2],
         mw |-> host1,
         stat_levels |-> levels1,
         trace |-> <<"_get_dynamic_legends", "_get_css_classes">>
                   \o (IF showH THEN <<"_generate_heatmap_elm">> ELSE <<>>)
                   \o (IF showS THEN <<"_generate_stats_elm">> ELSE <<>>)
                   \o (IF SavesPerf(self) THEN <<"_save_current_perf">>
                       ELSE <<>>)]

----------------------------------------------------------------------------
(* Inputs *)

Views == {"deckbrowser", "overview"}

Configs ==
  {[profile |-> [display |-> d, statsvis |-> sv],
    synced |-> [colors |-> "lime", mode |-> "year"]] :
     d \in [Views -> BOOLEAN], sv \in BOOLEAN}

\* a snapshot as get_data() returns it
Snapshot(smax, scur, pct, avg, avgtype) ==
  [stats |-> [streak_max |-> [type |-> "streak", value |-> smax],
              streak_cur |-> [type |-> "streak", value |-> scur],
              pct_days_active |-> [type |-> "percentage", value |-> pct],
              activity_daily_avg |-> [type |-> avgtype, value |-> avg]],
   start |-> 0, stop |-> 2, today |-> 1, offset |-> 0,
   activity |-> <<avg, scur>>]

Snapshots ==
  { Snapshot(200, 45, 100, 40, "percentage"),
    Snapshot(1, 0, 2, 5, "cards"),
    Snapshot(400, 366, 99, 100, "cards") }

DataValues == {NoData} \cup Snapshots

NotCalled == [called |-> FALSE]

----------------------------------------------------------------------------
(* The render machine: any sequence of generate calls, each made by a      *)
(* HeatmapCreator built with some config and whole flag.                   *)

Init ==
  /\ mw = {}
  /\ stat_levels = StatLevelsInit
  /\ log = <<>>
  /\ last = NotCalled
  /\ payload = NotCalled
  /\ trace = <<>>
  /\ repeat = FALSE
  /\ arg = NotCalled
  /\ res = NotCalled

Generate(config, whole, view, data) ==
  /\ Len(log) < MaxCalls
  /\ \E out \in {generate([config |-> config, whole |-> whole], view, data,
                           mw, stat_levels)} :
       /\ mw' = out.mw
       /\ stat_levels' = out.stat_levels
       /\ payload' = out.ret
       /\ trace' = out.trace
  /\ log' = Append(log, <<whole, data>>)
  /\ last' = [called |-> TRUE, config |-> config, whole |-> whole,
              view |-> view, data |-> data]
  /\ repeat' = (last' = last)
  /\ UNCHANGED <<arg, res>>

Next ==
  \E config \in Configs, whole \in BOOLEAN, view \in Views,
     data \in DataValues : Generate(config, whole, view, data)

Spec == Init /\ [][Next]_vars

----------------------------------------------------------------------------
(* The pure functions applied to inputs drawn from bounded sets *)

Averages == (-MaxNeg)..MaxAvg

Values == (-MaxNeg)..MaxValue

ExampleTable == << <<0, "a">>, <<25, "b">>, <<50, "c">> >>

Labels == << "a", "b", "c", "d", "e" >>

ThresholdPool == {0, 25, 50}

\* the non-empty tables of at most MaxTableLen entries, thresholds
\* ascending and starting at 0 or above as every table of the class does
Tables ==
  UNION { { [i \in 1..n |-> <<ts[i], Labels[i]>>] :
              ts \in { f \in [1..n -> ThresholdPool] :
                         \A i \in 1..(n - 1) : f[i] <= f[i + 1] } } :
          n \in 1..Min(MaxTableLen, Len(Labels)) }

ClassifyValues == Values \cup {49, 50, 51, 999}

Terms == {"day", "card", None, ""}

StatTypes == {"streak", "percentage", "cards"}

StatAverages == {a \in Averages : a % 5 = 0}

Range(f) == {f[i] : i \in DOMAIN f}

\* values on and just above every threshold the three tables can hold
StatValues ==
  Values
  \cup {t + d : t \in Range(StreakThresholds) \cup Range(PercentageThresholds),
               d \in {0, 1}}
  \cup {(legend_factors[i] * Max(DefaultAverage, a)) \div Den + d :
          i \in DOMAIN legend_factors, a \in StatAverages, d \in {0, 1}}
  \cup {999}

InitPure ==
  /\ mw = {}
  /\ stat_levels = StatLevelsInit
  /\ log = <<>>
  /\ last = NotCalled
  /\ payload = NotCalled
  /\ trace = <<>>
  /\ repeat = FALSE
  /\ res = NotCalled
  /\ \/ \E a \in Averages : arg = [fn |-> "legends", average |-> a]
     \/ \E v \in ClassifyValues, t \in Tables :
          arg = [fn |-> "classify", value |-> v, levels |-> t]
     \/ \E c \in Values, u \in Terms :
          arg = [fn |-> "pluralize", count |-> c, term |-> u]
     \/ \E ty \in StatTypes, v \in StatValues, a \in StatAverages :
          arg = [fn |-> "stats", stat |-> [type |-> ty, value |-> v],
                 average |-> a]

Return(out) ==
  /\ res = NotCalled
  /\ res' = [called |-> TRUE, out |-> out]
  /\ UNCHANGED <<mw, stat_levels, log, last, payload, trace, repeat, arg>>

CallLegends ==
  /\ arg.fn = "legends"
  /\ Return(GetDynamicLegends(arg.average))

CallClassify ==
  /\ arg.fn = "classify"
  /\ Return(Classify(arg.value, arg.levels))

CallPluralize ==
  /\ arg.fn = "pluralize"
  /\ Return(MaybePluralize(arg.count, arg.term))

\* _generate_stats_elm on a snapshot holding the one statistic "s", with
\* the stats legend of the given average
CallStatsElm ==
  /\ arg.fn = "stats"
  /\ Return(GenerateStatsElm(stat_levels, [stats |-> [s |-> arg.stat]],
                             GetDynamicLegends(arg.average).stats_legend))

NextPure == CallLegends \/ CallClassify \/ CallPluralize \/ CallStatsElm

SpecPure == InitPure /\ [][NextPure]_vars

----------------------------------------------------------------------------
(* Properties of the pure functions (under SpecPure) *)

\* C1: classifying a value against a non-empty ascending table returns the
\* label of the first entry with value <= threshold (equality included),
\* the last entry's label when no entry matches, and the first entry's
\* label for a negative value; on [(0,a),(25,b),(50,c)]: 0->a, 25->b,
\* 26->c, 999->c, -5->a.
C1_Classify ==
  (res # NotCalled /\ arg.fn = "classify") =>
    LET v == arg.value
        t == arg.levels
        hits == {i \in 1..Len(t) : v <= t[i][1]}
        first == CHOOSE i \in hits : \A j \in hits : i <= j
    IN  /\ hits # {} => res.out = t[first][2]
        /\ hits = {} => res.out = t[Len(t)][2]
        /\ v < 0 => res.out = t[1][2]
        /\ \A i \in 1..Len(t) : v = t[i][1] => res.out = t[first][2]
        /\ t = ExampleTable =>
             /\ v = 0 => res.out = "a"
             /\ v = 25 => res.out = "b"
             /\ v = 26 => res.out = "c"
             /\ v = 999 => res.out = "c"
             /\ v = -5 => res.out = "a"

\* C1 witness: 25 on the example table stopped at the entry it equals
C1_Witness ==
  /\ res # NotCalled
  /\ arg.fn = "classify"
  /\ arg.levels = ExampleTable
  /\ arg.value = 25
  /\ res.out = "b"

\* C2: for every average >= 0 the stats legend has 10 values, the first
\* 0 and the other nine positive and strictly ascending; the heatmap
\* legend has 19 values, legend[i] = -legend[18-i] for i in 0..18, and
\* its middle value is 0.
C2_LegendShape ==
  (res # NotCalled /\ arg.fn = "legends" /\ arg.average >= 0) =>
    LET sl == res.out.stats_legend
        hl == res.out.heatmap_legend
    IN  /\ Len(sl) = 10
        /\ sl[1] = 0
        /\ \A i \in 2..10 : sl[i] > 0
        /\ \A i \in 2..9 : sl[i] < sl[i + 1]
        /\ Len(hl) = 19
        /\ \A i \in 0..18 : hl[i + 1] = -hl[18 - i + 1]
        /\ hl[10] = 0

\* C2 witness: the legends of average 40, top value 160
C2_Witness ==
  /\ res # NotCalled
  /\ arg.fn = "legends"
  /\ arg.average = 40
  /\ res.out.heatmap_legend[19] = 160 * Den
  /\ res.out.heatmap_legend[1] = -160 * Den

\* C3: every average <= 20 (0 and negatives included) gives the legends
\* of average 20, and every average > 20 gives core values
\* factor * average for the nine factors.
C3_LegendFloor ==
  (res # NotCalled /\ arg.fn = "legends") =>
    LET sl == res.out.stats_legend
        hl == res.out.heatmap_legend
        \* 2.5, 5, 10, 15, 20, 25, 30, 40, 80 in eighths
        at20 == << 20, 40, 80, 120, 160, 200, 240, 320, 640 >>
        eighths == << 1, 2, 4, 6, 8, 10, 12, 16, 32 >>
    IN  /\ arg.average <= 20 =>
             /\ sl = <<0>> \o at20
             /\ hl = << -640, -320, -240, -200, -160, -120, -80, -40, -20 >>
                      \o <<0>> \o at20
        /\ arg.average > 20 =>
             /\ Len(sl) = 10 /\ Len(hl) = 19
             /\ \A i \in 1..9 : /\ sl[i + 1] = eighths[i] * arg.average
                                /\ hl[10 + i] = eighths[i] * arg.average

\* C3 witness: average 5 returned the legends of average 20
C3_Witness ==
  /\ res # NotCalled
  /\ arg.fn = "legends"
  /\ arg.average = 5
  /\ res.out.stats_legend[2] = 20
  /\ res.out.stats_legend[10] = 80 * Den

\* C4: with an empty or absent unit the value is returned unchanged,
\* otherwise the label is "<value> <unit>" plus "s" exactly when
\* abs(value) # 1, so 0 gives "0 days", 2 gives "2 days", 1 gives "1 day".
C4_PluralUnlessOne ==
  (res # NotCalled /\ arg.fn = "pluralize") =>
    IF arg.term \in {None, ""}
    THEN res.out = arg.count
    ELSE res.out = ToString(arg.count) \o " " \o arg.term
                     \o (IF arg.count \in {1, -1} THEN "" ELSE "s")

----------------------------------------------------------------------------
(* Properties of generate (under Spec) *)

\* C5: a generate call whose activity source yields no data returns the
\* fixed no-data payload (no heatmap, no stats, no classes) whatever the
\* view, preferences and whole flag, goes through no helper (no legend,
\* no classification) and leaves the three cache attributes unchanged.
C5_NoDataShortCircuit ==
  [][ (log' # log /\ last'.data = NoData) =>
        /\ payload'.info = "html_info_nodata"
        /\ payload'.heatmap = <<>>
        /\ payload'.stats = <<>>
        /\ payload'.classes = <<>>
        /\ trace' = <<>>
        /\ mw' = mw
        /\ stat_levels' = stat_levels ]_vars

\* C5 witness: a whole-collection call without data, made with the
\* heatmap enabled, after an earlier call had filled the cache
C5_Witness ==
  /\ last # NotCalled
  /\ last.data = NoData
  /\ last.whole
  /\ last.config.profile.display[last.view]
  /\ mw # {}
  /\ payload.classes = <<>>
  /\ trace = <<>>

\* C6 as stated: with data present each of the four combinations
\* (heatmap shown or suppressed) x (stats shown or suppressed) is
\* produced by some setting of the display preferences.
C6_FourCombinations ==
  (last # NotCalled /\ Truthy(last.data)) =>
    \A h \in BOOLEAN, st \in BOOLEAN :
      \E c \in Configs :
        LET out == generate([config |-> c, whole |-> last.whole],
                            last.view, last.data, mw, stat_levels).ret
        IN  /\ (out.heatmap # <<>>) = h
            /\ (out.stats # <<>>) = st

\* C6 amended: with data present a suppressed section has empty content
\* and its marker class, a shown section has content and no marker; the
\* heatmap is shown exactly when display[view] is set and the stats
\* exactly when display[view] or statsvis is set, so the stats can be
\* shown while the heatmap is suppressed, both can be shown and both
\* suppressed, but the heatmap is never shown while the stats are
\* suppressed.
C6_Sections ==
  (last # NotCalled /\ Truthy(last.data)) =>
    LET prefs == last.config.profile
        marks == Range(payload.classes)
    IN  /\ (payload.heatmap = <<>>) <=> ("rh-disable-heatmap" \in marks)
        /\ (payload.stats = <<>>) <=> ("rh-disable-stats" \in marks)
        /\ (payload.heatmap # <<>>) <=> prefs.display[last.view]
        /\ (payload.stats # <<>>) <=>
             (prefs.display[last.view] \/ prefs.statsvis)
        /\ (payload.heatmap # <<>>) => (payload.stats # <<>>)
        /\ \A hs \in {<<TRUE, TRUE>>, <<FALSE, TRUE>>, <<FALSE, FALSE>>} :
             \E c \in Configs :
               LET out == generate([config |-> c, whole |-> last.whole],
                                   last.view, last.data, mw, stat_levels).ret
               IN  /\ (out.heatmap # <<>>) = hs[1]
                   /\ (out.stats # <<>>) = hs[2]

\* C6 witness: the stats are shown while the heatmap is suppressed
C6_Witness ==
  /\ last # NotCalled
  /\ Truthy(last.data)
  /\ payload.heatmap = <<>>
  /\ payload.stats # <<>>
  /\ "rh-disable-heatmap" \in Range(payload.classes)
  /\ "rh-disable-stats" \notin Range(payload.classes)

\* C7: after any sequence of generate calls the three cache attributes
\* hold the streak_max, streak_cur and activity_daily_avg values of the
\* most recent whole-collection call that had data, whatever the display
\* preferences of the calls were (no attribute is set before the first
\* such call); calls that are not whole-collection calls, and calls
\* without data, leave them as they are.
C7_CacheLastWholeCall ==
  LET writers == {i \in 1..Len(log) : log[i][1] /\ log[i][2] # NoData}
      newest == CHOOSE i \in writers : \A j \in writers : j <= i
      st == log[newest][2].stats
  IN  IF writers = {} THEN mw = {}
      ELSE mw = { <<"_hmStreakMax", st["streak_max"].value>>,
                  <<"_hmStreakCur", st["streak_cur"].value>>,
                  <<"_hmActivityDailyAvg", st["activity_daily_avg"].value>> }

\* C7 witness: two whole-collection calls with different snapshots, then
\* a call that is not whole-collection, heatmap and stats suppressed; the
\* cache holds the second call's values
C7_Witness ==
  /\ Len(log) = 3
  /\ log[1][1] /\ log[1][2] # NoData
  /\ log[2][1] /\ log[2][2] # NoData /\ log[2][2] # log[1][2]
  /\ ~log[3][1] /\ log[3][2] # NoData /\ log[3][2] # log[2][2]
  /\ payload.heatmap = <<>> /\ payload.stats = <<>>
  /\ <<"_hmStreakCur", log[2][2].stats["streak_cur"].value>> \in mw
  /\ Cardinality(mw) = 3

\* C8: a generate call that repeats the arguments (snapshot, view,
\* configuration, whole flag) of the call before it returns the same
\* payload and leaves the cache as the first call left it; no call
\* changes the class table stat_levels, which stays as built at class
\* definition.
C8_Idempotent ==
  [][ (log' # log) =>
        /\ stat_levels' = stat_levels
        /\ stat_levels' = StatLevelsInit
        /\ (last # NotCalled /\ last' = last) =>
             /\ payload' = payload
             /\ trace' = trace
             /\ mw' = mw ]_vars

\* C8 witness: a whole-collection call with data and both sections shown
\* repeated the call before it
C8_Witness ==
  /\ repeat
  /\ Len(log) >= 2
  /\ log[Len(log)] = log[Len(log) - 1]
  /\ last.whole
  /\ Truthy(last.data)
  /\ payload.heatmap # <<>>
  /\ payload.stats # <<>>
  /\ Cardinality(mw) = 3

\* C9: in a generate call with both sections shown every statistic gets
\* the class of the first matching entry of the table of its own type
\* (streak: 0,14,30,90,180,365; percentage: 0,25,50,60,70,80,85,90,95,99;
\* cards: 0 and the nine legend values of this call); with average 40
\* and streak_cur 45 the streak_cur class is rh-col16, the class of the
\* streak entry 90, and the heatmap legend's top value is 4 * 40 = 160.
C9_DispatchByType ==
  (last # NotCalled /\ Truthy(last.data)
     /\ payload.heatmap # <<>> /\ payload.stats # <<>>) =>
    LET stats == last.data.stats
        avg == stats["activity_daily_avg"].value
        eff == IF avg > 20 THEN avg ELSE 20
        fd == payload.stats[1].format_dict
        legend == payload.heatmap[1].options.legend
        \* thresholds in eighths, with the classes of their entries
        tbl == [streak |->
                  << <<0, "rh-col0">>, <<14 * 8, "rh-col12">>,
                     <<30 * 8, "rh-col14">>, <<90 * 8, "rh-col16">>,
                     <<180 * 8, "rh-col19">>, <<365 * 8, "rh-col20">> >>,
                percentage |->
                  << <<0, "rh-col0">>, <<25 * 8, "rh-col11">>,
                     <<50 * 8, "rh-col12">>, <<60 * 8, "rh-col13">>,
                     <<70 * 8, "rh-col14">>, <<80 * 8, "rh-col15">>,
                     <<85 * 8, "rh-col16">>, <<90 * 8, "rh-col17">>,
                     <<95 * 8, "rh-col18">>, <<99 * 8, "rh-col19">> >>,
                cards |->
                  << <<0, "rh-col0">>, <<eff, "rh-col11">>,
                     <<2 * eff, "rh-col12">>, <<4 * eff, "rh-col13">>,
                     <<6 * eff, "rh-col14">>, <<8 * eff, "rh-col15">>,
                     <<10 * eff, "rh-col16">>, <<12 * eff, "rh-col17">>,
                     <<16 * eff, "rh-col18">>, <<32 * eff, "rh-col19">> >>]
    IN  /\ DOMAIN fd = DOMAIN stats
        /\ \A name \in DOMAIN stats :
             LET t == tbl[stats[name].type]
                 v == stats[name].value * 8
                 hits == {i \in 1..Len(t) : v <= t[i][1]}
             IN  fd[name].class =
                   IF hits = {} THEN t[Len(t)][2]
                   ELSE t[CHOOSE i \in hits : \A j \in hits : i <= j][2]
        /\ (avg = 40 /\ stats["streak_cur"] = [type |-> "streak", value |-> 45])
             => /\ fd["streak_cur"].class = "rh-col16"
                /\ legend[19] = 160 * 8
                /\ \A i \in 1..19 : legend[i] <= legend[19]

\* C9 witness: the snapshot with average 40 and streak_cur 45, both
\* sections shown
C9_Witness ==
  /\ last # NotCalled
  /\ Truthy(last.data)
  /\ last.data.stats["activity_daily_avg"].value = 40
  /\ last.data.stats["streak_cur"] = [type |-> "streak", value |-> 45]
  /\ payload.heatmap # <<>>
  /\ payload.stats # <<>>
  /\ payload.stats[1].format_dict["streak_cur"].class = "rh-col16"
  /\ payload.heatmap[1].options.legend[19] = 1280

----------------------------------------------------------------------------
(* Truncation of the tables (under SpecPure) *)

\* C10: a statistic of type cards or percentage never gets rh-col20,
\* whatever its value and the average: a cards value above
\* 4 * max(20, average) and a percentage value above 99 get rh-col19,
\* as the values of the last band below (cards above 2 * max(20,
\* average), percentage above 95) do; rh-col20 is given exactly to the
\* streak values above 180.
C10_Col20OnlyStreak ==
  (res # NotCalled /\ arg.fn = "stats") =>
    LET ty == arg.stat.type
        v == arg.stat.value
        eff == IF arg.average > 20 THEN arg.average ELSE 20
        class == res.out[1].format_dict["s"].class
    IN  /\ ty \in {"cards", "percentage"} => class # "rh-col20"
        /\ (ty = "cards" /\ v > 2 * eff) => class = "rh-col19"
        /\ (ty = "cards" /\ v <= 2 * eff) => class # "rh-col19"
        /\ (ty = "percentage" /\ v > 95) => class = "rh-col19"
        /\ (ty = "percentage" /\ v <= 95) => class # "rh-col19"
        /\ (class = "rh-col20") <=> (ty = "streak" /\ v > 180)

\* C10 witness: a cards value above the top legend value of average 40
C10_Witness ==
  /\ res # NotCalled
  /\ arg.fn = "stats"
  /\ arg.stat = [type |-> "cards", value |-> 161]
  /\ arg.average = 40
  /\ res.out[1].format_dict["s"].class = "rh-col19"

====
